---- MODULE Spec2Model ----
(***************************************************************************)
(* PionexFuturesGridBot (src/pionex_futures_grid_bot.py): the position     *)
(* ledger, the backtest pass, the live polling loop and the command        *)
(* channel (start / stop / restart / reset-stats).                         *)
(*                                                                         *)
(* Numbers.  The program computes in floats; the model uses integers in    *)
(* fixed units: prices in ticks, sizes in 1/SizeUnit of a coin, money      *)
(* (balance, fees, pnl) in 1/SizeUnit of a tick.  Rates are per mille or   *)
(* per ten thousand and divisions are integer divisions.                   *)
(*                                                                         *)
(* Exceptions.  A Python exception is modelled as an outcome of the call   *)
(* ("AttributeError", "NameError") that the caller's handler, if any,      *)
(* turns into its next position.                                           *)
(***************************************************************************)
EXTENDS Integers, Sequences, FiniteSets, TLC

\* ------------------------------------------------------------------ bounds
MaxThreads == 2      \* live loop threads that one run may create
MaxBars == 3         \* rows of the historical data set
MaxCalls == 2        \* direct method calls in one run of the method-level specification
grid_count == 3      \* config['grid_count']

\* ------------------------------------------------------- program constants
initial_balance == 10000      \* config['initial_balance']
investment_amount == 1000     \* config['investment_amount']
leverage == 3                 \* config['leverage']
fee_rate_e4 == 4              \* config['fee_rate'] = 0.0004, per ten thousand
funding_rate_e4 == 1          \* config['funding_rate'] = 0.0001, per ten thousand
trend_strength_threshold_pct == 60   \* self.trend_strength_threshold = 0.6
MinIndex == 50                       \* detect_trend: rows needed before a verdict
LevUnit == 10 * 10 * 1000            \* a leverage is held in 1/LevUnit: tenths x tenths x per mille
stop_loss_pct_pm == 50
take_profit_pct_pm == 100
liquidation_buffer_pm == 100  \* config['liquidation_buffer'] = 0.1, per mille
slippage_rate_pm == 1         \* self.slippage_rate = 0.001, per mille
spread_rate_pm == 2           \* self.spread_rate = 0.002, per mille
FallbackPrice == 50000        \* auto_set_grid_range: price when the fetch fails
DefaultVolatility_pm == 20    \* auto_set_grid_range: volatility without klines
MinRange_pm == 50             \* auto_set_grid_range: max(0.05, ...)
MaxRange_pm == 200            \* auto_set_grid_range: min(0.20, ...)
FundingInterval == 480        \* run_backtest: i % 480 == 0
SizeUnit == 10 * 100          \* fixed-point unit of sizes and money
DrawdownUnit == 10 * 1000     \* fixed-point unit of the drawdown fraction

None == -1                    \* Python's None for an optional price

\* Prices the ticker (or a bar's close) can show, volatilities (per mille) the
\* klines can show, and the draws of random.uniform(0.5, 1.5) in halves.
Prices == {1600, 2400}
Volatilities == {2, 30}
Uniform == {1, 3}

Threads == 1..MaxThreads

VARIABLES
    mode,                 \* "live" | "backtest": the --mode of the run
    is_live_trading,      \* self.is_live_trading
    current_price,        \* self.current_price
    grid_prices,          \* self.grid_prices
    grid_lower_price,     \* config['grid_lower_price'] (None: "auto", not yet set)
    grid_upper_price,     \* config['grid_upper_price']
    positions,            \* self.positions
    trades,               \* self.trades
    total_fees,           \* self.total_fees
    funding_fees,         \* self.funding_fees
    current_balance,      \* self.current_balance
    start_balance,        \* self.start_balance
    max_balance,          \* self.max_balance
    min_balance,          \* self.min_balance
    max_drawdown,         \* self.max_drawdown, in 1/DrawdownUnit
    liquidated_positions, \* self.liquidated_positions
    threads,              \* the live_trading_loop threads: pc, last_price, and as
                          \* history ret (how the last pass of the body ended)
                          \* and prev (how its price stood to the one before)
    cmd,                  \* the command channel: command in progress and its position
    bt,                   \* run_backtest: position, row index, rows, last close,
                          \* and whether the time limit test has ended the loop
    next_uid,             \* history: identity given to the next position created
    stop_seen,            \* history: thread was alive when a stop cleared the flag
    resumed,              \* history: thread passed its while test after such a stop
    last_result,          \* history: how the last command ended
    call                  \* a method called directly on the bot: name, arguments, result

perfVars == <<max_balance, min_balance, max_drawdown>>
ledgerVars == <<positions, trades, total_fees, funding_fees, current_balance,
                start_balance, liquidated_positions, next_uid, perfVars>>
gridVars == <<grid_prices, grid_lower_price, grid_upper_price>>
histVars == <<stop_seen, resumed, last_result>>
vars == <<mode, is_live_trading, current_price, gridVars, ledgerVars, threads,
          cmd, bt, histVars, call>>

\* The ledger as one value, for the operations that thread it through a loop.
Ledger == [positions |-> positions, trades |-> trades, total_fees |-> total_fees,
           funding_fees |-> funding_fees, current_balance |-> current_balance,
           liquidated_positions |-> liquidated_positions, next_uid |-> next_uid]

\* How a call of a method ends: it returns a value, or an exception leaves it.
Returns(v) == [raises |-> "", value |-> v]
Raises(e) == [raises |-> e]

\* ------------------------------------------------------ GridLevelPlanner
Max(a, b) == IF a > b THEN a ELSE b
Min(a, b) == IF a < b THEN a ELSE b

\* auto_set_grid_range: runs on every grid computation and overwrites the
\* configured bounds.  price: the ticker price (live) or the last close
\* (backtest), None when the fetch failed; volatility_pm: closes.pct_change().std()
\* per mille, None when no klines came back.
auto_set_grid_range(price, volatility_pm) ==
    LET cur == IF price = None THEN FallbackPrice ELSE price
        volatility == IF volatility_pm = None THEN DefaultVolatility_pm ELSE volatility_pm
        grid_range_pct == Max(MinRange_pm, Min(MaxRange_pm, volatility * 10))
        grid_range == (cur * grid_range_pct) \div 1000
    IN  [lower |-> cur - grid_range \div 2, upper |-> cur + grid_range \div 2]

\* calculate_grid_prices lines 935-941, for a configuration with count levels:
\* the division by count - 1 raises ZeroDivisionError when count is 1.
grid_prices_for(lower_price, upper_price, count) ==
    IF count - 1 = 0
    THEN Raises("ZeroDivisionError")
    ELSE LET grid_spacing == (upper_price - lower_price) \div (count - 1)
         IN  Returns([i \in 1..count |-> lower_price + (i - 1) * grid_spacing])

\* calculate_grid_prices, after auto_set_grid_range has set the bounds.
calculate_grid_prices(lower_price, upper_price) ==
    grid_prices_for(lower_price, upper_price, grid_count).value

\* The grid count calculate_adaptive_grid_prices works with: int(count * 1.5)
\* above a volatility of 0.05, int(count * 0.8) below 0.01.
adapted_grid_count(count, volatility_pm) ==
    IF volatility_pm > 50 THEN (count * 15) \div 10
    ELSE IF volatility_pm < 10 THEN (count * 8) \div 10
    ELSE count

\* calculate_adaptive_grid_prices lines 1231-1255, after auto_set_grid_range
\* has set the bounds.  end_price is computed and not used.
calculate_adaptive_grid_prices(lower_price, upper_price, count, price, volatility_pm) ==
    LET n == adapted_grid_count(count, volatility_pm)
    IN  IF n - 1 = 0 THEN Raises("ZeroDivisionError")
        ELSE IF n = 0 THEN Returns(<<>>)
        ELSE LET price_range == upper_price - lower_price
                 grid_spacing == price_range \div (n - 1)
                 start_price == Max(lower_price, price - (n \div 2) * grid_spacing)
             IN  Returns([i \in 1..n |-> start_price + (i - 1) * grid_spacing])

\* ---------------------------------------------------- ExecutionSimulator
\* apply_slippage_and_spread; u is the draw of random.uniform(0.5, 1.5) in halves.
apply_slippage_and_spread(price, is_buy, u) ==
    LET slippage == (price * slippage_rate_pm * u) \div 2000
        spread == (price * spread_rate_pm) \div 1000
    IN  IF is_buy THEN price + slippage + spread ELSE price - slippage - spread

\* simulate_order_execution: always returns the executed price (never None).
simulate_order_execution(price, is_buy, u) == apply_slippage_and_spread(price, is_buy, u)

\* ----------------------------------------------------------- notifications
\* What requests.post can do in send_telegram_message: answer 200, answer
\* another status, or raise (timeout, connection error).
Responses == {"200", "400", "raises"}

\* send_telegram_message on ledger L: a status other than 200 is logged as a
\* warning and an exception is caught and logged; the call returns None and
\* assigns no attribute of the bot in any of the three cases.
send_telegram_message(L, response) ==
    IF response = "200" THEN [ret |-> "None", L |-> L]
    ELSE IF response = "400" THEN [ret |-> "None", L |-> L]
    ELSE [ret |-> "None", L |-> L]

\* The ledger after a send, whatever the response was.
notify(L) == (CHOOSE r \in {send_telegram_message(L, response) : response \in Responses} : TRUE).L

\* -------------------------------------------------------- PositionLedger
calculate_position_size(price) == (investment_amount * leverage * SizeUnit) \div price

\* self.trailing_stop_pct is read by execute_trade (line 1022) and assigned
\* nowhere: __init__ never sets it and no other code of the repository does.
trailing_stop_pct_is_set == FALSE

\* close_position formats grid_sell_pnl, grid_sell_pct, tp_pnl and tp_pct into
\* its message (line 1099); none of these names is bound anywhere.
close_msg_names_are_bound == FALSE

\* execute_trade(price, side, timestamp) on ledger L.  ret is the returned
\* value ("True", "False") or the exception that leaves the call.
execute_trade(L, price, side, u) ==
    LET position_size == calculate_position_size(price)
        executed_price == simulate_order_execution(price, side = "buy", u)
        fee == (position_size * executed_price * fee_rate_e4) \div 10000
        position == [uid |-> L.next_uid,
                     id |-> Len(L.positions) + 1,
                     side |-> side,
                     entry_price |-> executed_price,
                     size |-> position_size,
                     leverage |-> leverage,
                     buy_fee |-> fee]
    IN  IF position_size <= 0 THEN [ret |-> "False", L |-> L]
        ELSE IF executed_price = None THEN [ret |-> "False", L |-> L]
        ELSE IF ~trailing_stop_pct_is_set THEN [ret |-> "AttributeError", L |-> L]
        ELSE [ret |-> "True",
              L |-> notify([L EXCEPT !.positions = Append(@, position),
                                     !.total_fees = @ + fee,
                                     !.next_uid = @ + 1])]

\* close_position(position, price, timestamp) on ledger L: the ledger is
\* updated before the message is built, so the NameError of line 1099 leaves
\* the call with fees, balance and trade history already changed.  The
\* position is not removed here: the callers do that after the call returns.
close_position(L, position, price, u) ==
    LET executed_price == simulate_order_execution(price, position.side = "sell", u)
        pnl == IF position.side = "long"
               THEN (executed_price - position.entry_price) * position.size * position.leverage
               ELSE (position.entry_price - executed_price) * position.size * position.leverage
        sell_fee == (position.size * executed_price * fee_rate_e4) \div 10000
        trade == [side |-> IF position.side = "long" THEN "sell" ELSE "buy",
                  price |-> executed_price,
                  size |-> position.size,
                  fee |-> sell_fee,
                  pnl |-> pnl,
                  leverage |-> position.leverage,
                  uid |-> position.uid]
        L1 == [L EXCEPT !.total_fees = @ + sell_fee,
                        !.current_balance = @ + pnl - sell_fee,
                        !.trades = Append(@, trade)]
    IN  IF executed_price = None THEN [ret |-> "0", L |-> L]
        ELSE IF ~close_msg_names_are_bound THEN [ret |-> "NameError", L |-> L1]
        ELSE [ret |-> "pnl", L |-> notify(L1)]

\* list.remove(position)
Remove(seq, position) == SelectSeq(seq, LAMBDA p : p # position)

\* The PnL formula of the risk checks (lines 1288-1291 and 1324-1327): the long
\* formula for side "long", the short formula for every other side.
risk_pnl(position, price) ==
    IF position.side = "long"
    THEN (price - position.entry_price) * position.size * position.leverage
    ELSE (position.entry_price - price) * position.size * position.leverage

\* check_liquidation_risk comparing with <= instead of <
check_liquidation_risk_inclusive(position, price, buffer_pm) ==
    LET pnl == risk_pnl(position, price)
        margin == position.size
    IN  IF margin = 0 THEN Raises("ZeroDivisionError")
        ELSE Returns((margin + pnl) * 1000 <= buffer_pm * margin)

\* check_liquidation_risk under config['liquidation_buffer'] = buffer_pm / 1000:
\* margin is the position's size, and the division by it raises when it is 0.
check_liquidation_risk_with(position, price, buffer_pm) ==
    LET pnl == risk_pnl(position, price)
        margin == position.size
    IN  IF margin = 0 THEN Raises("ZeroDivisionError")
        ELSE Returns((margin + pnl) * 1000 < buffer_pm * margin)

\* check_liquidation_risk under the default configuration, on a position of
\* the ledger (whose size is positive).
check_liquidation_risk(position, price) ==
    check_liquidation_risk_with(position, price, liquidation_buffer_pm).value

Abs(x) == IF x < 0 THEN -x ELSE x

\* advanced_risk_management without its take-profit test
advanced_risk_management_no_take_profit(position, price, volatility_pm, cfg) ==
    IF ~cfg.risk_management_enabled
    THEN check_liquidation_risk_with(position, price, cfg.liquidation_buffer_pm)
    ELSE LET pnl == risk_pnl(position, price)
             margin == position.size
             dynamic_buffer == cfg.liquidation_buffer_pm + volatility_pm * 10
         IN  IF margin = 0 THEN Raises("ZeroDivisionError")
             ELSE Returns(\/ (margin + pnl) * 1000 < dynamic_buffer * margin
                          \/ Abs(pnl) * 1000 > cfg.stop_loss_pm * margin)

\* advanced_risk_management; cfg holds risk_management_enabled and the three
\* configuration entries it reads, per mille.
advanced_risk_management(position, price, volatility_pm, cfg) ==
    IF ~cfg.risk_management_enabled
    THEN check_liquidation_risk_with(position, price, cfg.liquidation_buffer_pm)
    ELSE LET pnl == risk_pnl(position, price)
             margin == position.size
             dynamic_buffer == cfg.liquidation_buffer_pm + volatility_pm * 10
         IN  IF margin = 0 THEN Raises("ZeroDivisionError")
             ELSE Returns(\/ (margin + pnl) * 1000 < dynamic_buffer * margin
                          \/ Abs(pnl) * 1000 > cfg.stop_loss_pm * margin
                          \/ pnl * 1000 > cfg.take_profit_pm * margin)

\* self.dynamic_leverage_enabled is set to True in __init__ and assigned
\* nowhere else.
dynamic_leverage_enabled == TRUE

\* The three multipliers of calculate_dynamic_leverage: volatility and trend
\* in tenths, balance (in whole currency units) per mille.
leverage_multiplier(volatility_pm) ==
    IF volatility_pm < 10 THEN 12 ELSE IF volatility_pm > 50 THEN 7 ELSE 10

trend_multiplier(trend) ==
    IF trend = "bullish" THEN 11 ELSE IF trend = "bearish" THEN 9 ELSE 10

balance_multiplier(balance) == Min(1500, 1000 + balance \div 100)

\* calculate_dynamic_leverage without the lower limit of 1.0
calculate_dynamic_leverage_no_floor(base_leverage, volatility_pm, trend, balance) ==
    Min(3 * LevUnit,
        base_leverage * leverage_multiplier(volatility_pm)
            * trend_multiplier(trend) * balance_multiplier(balance))

\* calculate_dynamic_leverage, in 1/LevUnit; base_leverage is config['leverage'].
calculate_dynamic_leverage(base_leverage, volatility_pm, trend, balance) ==
    IF ~dynamic_leverage_enabled THEN base_leverage * LevUnit
    ELSE LET dynamic_leverage ==
                 base_leverage * leverage_multiplier(volatility_pm)
                     * trend_multiplier(trend) * balance_multiplier(balance)
         IN  Max(1 * LevUnit, Min(3 * LevUnit, dynamic_leverage))

\* detect_trend without the gate of the trend strength
detect_trend_no_gate(index, row) ==
    IF index < MinIndex THEN "neutral"
    ELSE LET rsi_trend == IF row.rsi # None /\ row.rsi > 50 THEN "bullish" ELSE "bearish"
             macd_trend == IF row.macd > row.macd_signal THEN "bullish" ELSE "bearish"
             bb_position == ((row.close - row.bb_lower) * 1000)
                                \div (row.bb_upper - row.bb_lower)
             bb_trend == IF row.bb_upper = None \/ row.bb_lower = None THEN "neutral"
                         ELSE IF bb_position > 700 THEN "bullish"
                         ELSE IF bb_position < 300 THEN "bearish"
                         ELSE "neutral"
             signals == <<rsi_trend, macd_trend, bb_trend>>
             bullish_signals == Cardinality({i \in 1..3 : signals[i] = "bullish"})
             bearish_signals == Cardinality({i \in 1..3 : signals[i] = "bearish"})
         IN  IF bullish_signals >= 2 THEN "bullish"
             ELSE IF bearish_signals >= 2 THEN "bearish"
             ELSE "neutral"

\* detect_trend(data, index); row is data.iloc[index], with None for NaN, adx
\* in percent and the bands with bb_lower < bb_upper.  A comparison with NaN
\* is false.
detect_trend(index, row) ==
    IF index < MinIndex THEN "neutral"
    ELSE LET rsi_trend == IF row.rsi # None /\ row.rsi > 50 THEN "bullish" ELSE "bearish"
             macd_trend == IF row.macd > row.macd_signal THEN "bullish" ELSE "bearish"
             trend_strength == IF row.adx # None THEN row.adx ELSE 50
             bb_position == ((row.close - row.bb_lower) * 1000)
                                \div (row.bb_upper - row.bb_lower)
             bb_trend == IF row.bb_upper = None \/ row.bb_lower = None THEN "neutral"
                         ELSE IF bb_position > 700 THEN "bullish"
                         ELSE IF bb_position < 300 THEN "bearish"
                         ELSE "neutral"
             signals == <<rsi_trend, macd_trend, bb_trend>>
             bullish_signals == Cardinality({i \in 1..3 : signals[i] = "bullish"})
             bearish_signals == Cardinality({i \in 1..3 : signals[i] = "bearish"})
         IN  IF trend_strength < trend_strength_threshold_pct THEN "neutral"
             ELSE IF bullish_signals >= 2 THEN "bullish"
             ELSE IF bearish_signals >= 2 THEN "bearish"
             ELSE "neutral"

\* calculate_liquidation_price; position_size is not used by the code.
calculate_liquidation_price(entry_price, position_size, is_long, lev) ==
    IF lev = 0 THEN Raises("ZeroDivisionError")
    ELSE IF is_long THEN Returns(entry_price - entry_price \div lev)
    ELSE Returns(entry_price + entry_price \div lev)

\* check_liquidation: reads position['liquidation_price'] and
\* position['is_long'], and raises KeyError when the dict has no such key.
check_liquidation(price, position) ==
    IF "liquidation_price" \notin DOMAIN position THEN Raises("KeyError")
    ELSE IF "is_long" \notin DOMAIN position THEN Raises("KeyError")
    ELSE Returns(\/ position.is_long /\ price <= position.liquidation_price
                 \/ ~position.is_long /\ price >= position.liquidation_price)

RECURSIVE SumValue(_)
SumValue(ps) == IF ps = <<>> THEN 0
                ELSE Head(ps).size * Head(ps).entry_price + SumValue(Tail(ps))

\* apply_funding_fees charging the balance without entering the fee in
\* total_fees.
apply_funding_fees_not_in_total(L) ==
    IF Len(L.positions) > 0
    THEN LET funding_fee == (SumValue(L.positions) * funding_rate_e4) \div 10000
         IN  [L EXCEPT !.funding_fees = @ + funding_fee,
                       !.current_balance = @ - funding_fee]
    ELSE L

\* apply_funding_fees
apply_funding_fees(L) ==
    IF Len(L.positions) > 0
    THEN LET funding_fee == (SumValue(L.positions) * funding_rate_e4) \div 10000
         IN  [L EXCEPT !.funding_fees = @ + funding_fee,
                       !.total_fees = @ + funding_fee,
                       !.current_balance = @ - funding_fee]
    ELSE L

\* The least index of a set of indices: the first element a for loop meets; 0 if none.
First(S) == IF S = {} THEN 0 ELSE CHOOSE i \in S : \A j \in S : i <= j

\* ------------------------------------------------- DecisionLoop: backtest
\* run_backtest, "Check liquidations": qualifying positions are counted and
\* removed from the open set; close_position is not called for them.
check_liquidations(L, price) ==
    LET liquidated == {j \in DOMAIN L.positions : check_liquidation_risk(L.positions[j], price)}
    IN  [L EXCEPT !.liquidated_positions = @ + Cardinality(liquidated),
                  !.positions = SelectSeq(@, LAMBDA p : ~check_liquidation_risk(p, price))]

\* run_backtest, "Grid trading logic": the for loop over self.grid_prices from
\* level k on.  S.ret is "ok" or the exception that left the loop.
RECURSIVE grid_trading_logic(_, _, _, _, _)
grid_trading_logic(S, grid, k, price, u) ==
    IF k > Len(grid) \/ S.ret # "ok" THEN S
    ELSE
      LET L == S.L
          grid_price == grid[k]
          at_level == {j \in DOMAIN L.positions : L.positions[j].entry_price = grid_price}
          longs == {j \in at_level : L.positions[j].side = "long"}
          buy == execute_trade(L, grid_price, "buy", u)
          position == L.positions[First(longs)]
          sell == close_position(L, position, grid_price, u)
          S1 == IF price <= grid_price /\ at_level = {}
                THEN IF L.current_balance > investment_amount * SizeUnit
                     THEN [L |-> buy.L,
                           ret |-> IF buy.ret = "AttributeError" THEN buy.ret ELSE "ok"]
                     ELSE S
                ELSE IF price >= grid_price /\ longs # {}
                THEN IF sell.ret = "NameError"
                     THEN [L |-> sell.L, ret |-> sell.ret]
                     ELSE [L |-> [sell.L EXCEPT !.positions = Remove(@, position)],
                           ret |-> "ok"]
                ELSE S
      IN  grid_trading_logic(S1, grid, k + 1, price, u)

\* run_backtest, the body of the for loop for row i with close price.
backtest_bar(L, grid, i, price, u) ==
    LET L1 == IF i % FundingInterval = 0 THEN apply_funding_fees(L) ELSE L
        L2 == check_liquidations(L1, price)
    IN  grid_trading_logic([L |-> L2, ret |-> "ok"], grid, 1, price, u)

\* run_backtest, "Close remaining positions": close_position on every open
\* position, from the k-th on; no position is removed from self.positions.
RECURSIVE close_remaining(_, _, _, _)
close_remaining(S, k, price, u) ==
    IF k > Len(S.L.positions) \/ S.ret # "ok" THEN S
    ELSE LET r == close_position(S.L, S.L.positions[k], price, u)
         IN  close_remaining([L |-> r.L,
                              ret |-> IF r.ret = "NameError" THEN r.ret ELSE "ok"],
                             k + 1, price, u)

\* ----------------------------------------------------- DecisionLoop: live
\* The grid cross check with a static comparison in place of the crossing
\* test: a level acts whenever the price stands at or above it (or at or below
\* it), whatever the previous price was.
check_grid_cross_static(L, grid, last_price, price, u) ==
    LET has_long == \E j \in DOMAIN L.positions : L.positions[j].side = "long"
        has_short == \E j \in DOMAIN L.positions : L.positions[j].side = "short"
        opens(k) == grid[k] <= price /\ ~has_long
        closes(k) == ~opens(k) /\ grid[k] >= price /\ ~has_short /\ has_long
        k0 == First({k \in DOMAIN grid : opens(k) \/ closes(k)})
        buy == execute_trade(L, grid[k0], "buy", u)
        position == L.positions[First({j \in DOMAIN L.positions :
                                         L.positions[j].side = "long"})]
        sell == close_position(L, position, grid[k0], u)
    IN  IF k0 = 0 THEN [L |-> L, ret |-> "none"]
        ELSE IF opens(k0)
        THEN [L |-> buy.L,
              ret |-> IF buy.ret = "AttributeError" THEN buy.ret ELSE "traded"]
        ELSE IF sell.ret = "NameError"
        THEN [L |-> sell.L, ret |-> sell.ret]
        ELSE [L |-> [sell.L EXCEPT !.positions = Remove(@, position)], ret |-> "traded"]

\* live_trading_loop, "Check for grid cross": the for loop over
\* self.grid_prices.  has_long and has_short are the same at every level up
\* to the first one that acts, and the loop breaks there.  ret: "none" (no
\* level acted), "traded" (trade_executed) or the exception raised.
check_grid_cross(L, grid, last_price, price, u) ==
    LET has_long == \E j \in DOMAIN L.positions : L.positions[j].side = "long"
        has_short == \E j \in DOMAIN L.positions : L.positions[j].side = "short"
        crossed_up(g) == last_price < g /\ g <= price
        crossed_down(g) == last_price > g /\ g >= price
        opens(k) == crossed_up(grid[k]) /\ ~has_long
        closes(k) == ~opens(k) /\ crossed_down(grid[k]) /\ ~has_short /\ has_long
        k0 == First({k \in DOMAIN grid : opens(k) \/ closes(k)})
        buy == execute_trade(L, grid[k0], "buy", u)
        position == L.positions[First({j \in DOMAIN L.positions :
                                         L.positions[j].side = "long"})]
        sell == close_position(L, position, grid[k0], u)
    IN  IF last_price = None \/ k0 = 0 THEN [L |-> L, ret |-> "none"]
        ELSE IF opens(k0)
        THEN [L |-> buy.L,
              ret |-> IF buy.ret = "AttributeError" THEN buy.ret ELSE "traded"]
        ELSE IF sell.ret = "NameError"
        THEN [L |-> sell.L, ret |-> sell.ret]
        ELSE [L |-> [sell.L EXCEPT !.positions = Remove(@, position)], ret |-> "traded"]

\* stop_live_trading, "Close all open positions", from the k-th position of
\* the copy ps on: close_position, then self.positions.remove.
RECURSIVE close_all(_, _, _, _, _)
close_all(S, ps, k, price, u) ==
    IF k > Len(ps) \/ S.ret # "ok" THEN S
    ELSE LET r == close_position(S.L, ps[k], price, u)
         IN  close_all(IF r.ret = "NameError"
                       THEN [L |-> r.L, ret |-> r.ret]
                       ELSE [L |-> [r.L EXCEPT !.positions = Remove(@, ps[k])], ret |-> "ok"],
                       ps, k + 1, price, u)

\* stop_live_trading after the flag is cleared: a price is fetched only when
\* positions are open, and they are closed only when the fetch succeeded.
stop_close_positions(L, price, u) ==
    IF L.positions # <<>> /\ price # None /\ price # 0
    THEN close_all([L |-> L, ret |-> "ok"], L.positions, 1, price, u)
    ELSE [L |-> L, ret |-> "ok"]

\* start_live_trading with the failure branch forgetting to clear the flag
\* (line 1659 dropped).
start_live_trading_flag_left_set(price, price2, volatility_pm) ==
    LET bounds == auto_set_grid_range(price2, volatility_pm)
    IN  IF price = None
        THEN [is_live_trading |-> TRUE, current_price |-> current_price,
              lower |-> grid_lower_price, upper |-> grid_upper_price,
              grid |-> grid_prices, thread |-> FALSE]
        ELSE [is_live_trading |-> TRUE, current_price |-> price,
              lower |-> bounds.lower, upper |-> bounds.upper,
              grid |-> calculate_grid_prices(bounds.lower, bounds.upper),
              thread |-> TRUE]

\* start_live_trading once the flag is set: price is the fetched ticker
\* price; price2 and volatility_pm are what auto_set_grid_range fetches when
\* the grid is computed.  thread: whether the loop thread is started.
start_live_trading(price, price2, volatility_pm) ==
    LET bounds == auto_set_grid_range(price2, volatility_pm)
    IN  IF price = None
        THEN [is_live_trading |-> FALSE, current_price |-> current_price,
              lower |-> grid_lower_price, upper |-> grid_upper_price,
              grid |-> grid_prices, thread |-> FALSE]
        ELSE [is_live_trading |-> TRUE, current_price |-> price,
              lower |-> bounds.lower, upper |-> bounds.upper,
              grid |-> calculate_grid_prices(bounds.lower, bounds.upper),
              thread |-> TRUE]

\* ------------------------------------------------------------------ state
Idle == [op |-> "none", pc |-> "idle"]
NoThread == [pc |-> "none", last_price |-> None, ret |-> "", prev |-> ""]
NoCall == [fn |-> "none"]

\* __init__, and the choice of --mode in run_pionex_bot.main
Init ==
    /\ mode \in {"live", "backtest"}
    /\ is_live_trading = FALSE
    /\ current_price = None
    /\ grid_prices = <<>>
    /\ grid_lower_price = None
    /\ grid_upper_price = None
    /\ positions = <<>>
    /\ trades = <<>>
    /\ total_fees = 0
    /\ funding_fees = 0
    /\ current_balance = initial_balance * SizeUnit
    /\ start_balance = initial_balance * SizeUnit
    /\ max_balance = start_balance
    /\ min_balance = start_balance
    /\ max_drawdown = 0
    /\ liquidated_positions = 0
    /\ threads = [t \in Threads |-> NoThread]
    /\ cmd = Idle
    /\ bt = [pc |-> "ready", i |-> 0, n |-> 0, last |-> None, price |-> None,
             timed_out |-> FALSE]
    /\ next_uid = 1
    /\ stop_seen = [t \in Threads |-> FALSE]
    /\ resumed = [t \in Threads |-> FALSE]
    /\ last_result = "none"
    /\ call = NoCall

\* Writes ledger L back to the attributes of the bot.
SetLedger(L) ==
    /\ positions' = L.positions
    /\ trades' = L.trades
    /\ total_fees' = L.total_fees
    /\ funding_fees' = L.funding_fees
    /\ current_balance' = L.current_balance
    /\ liquidated_positions' = L.liquidated_positions
    /\ next_uid' = L.next_uid
    /\ UNCHANGED <<start_balance, perfVars>>

Alive(t) == threads[t].pc \in {"wait", "cycle"}
FreeSlots == {t \in Threads : ~Alive(t)}

\* --------------------------------------------------------- command channel
\* The command channel handles one command at a time (run_telegram_polling
\* handles the updates of a poll in sequence); main's start_live_trading and
\* stop_live_trading calls are commands of this channel too.

\* start_live_trading up to the price fetch: the running test and the flag.
BeginStart(op) ==
    IF is_live_trading
    THEN /\ cmd' = Idle
         /\ last_result' = "already_running"
         /\ UNCHANGED is_live_trading
    ELSE /\ is_live_trading' = TRUE
         /\ cmd' = [op |-> op, pc |-> "start_fetch"]
         /\ UNCHANGED last_result

\* stop_live_trading up to "Close all open positions": the flag is cleared.
BeginStop(op) ==
    /\ is_live_trading' = FALSE
    /\ stop_seen' = [t \in Threads |-> stop_seen[t] \/ Alive(t)]
    /\ cmd' = [op |-> op, pc |-> "stop_close"]
    /\ UNCHANGED last_result

\* cmd_start
CmdStart ==
    /\ mode = "live" /\ cmd = Idle /\ FreeSlots # {}
    /\ BeginStart("start")
    /\ UNCHANGED <<mode, call, current_price, gridVars, ledgerVars, threads, bt,
                   stop_seen, resumed>>

\* start_live_trading from the price fetch on (of cmd_start or cmd_restart)
StartFetch(price, price2, volatility_pm) ==
    /\ cmd.pc = "start_fetch"
    /\ LET r == start_live_trading(price, price2, volatility_pm)
           t == First(FreeSlots)
       IN  /\ is_live_trading' = r.is_live_trading
           /\ current_price' = r.current_price
           /\ grid_lower_price' = r.lower
           /\ grid_upper_price' = r.upper
           /\ grid_prices' = r.grid
           /\ threads' = IF r.thread
                         THEN [threads EXCEPT ![t] = [NoThread EXCEPT !.pc = "wait"]]
                         ELSE threads
           /\ stop_seen' = IF r.thread THEN [stop_seen EXCEPT ![t] = FALSE] ELSE stop_seen
           /\ resumed' = IF r.thread THEN [resumed EXCEPT ![t] = FALSE] ELSE resumed
    /\ cmd' = Idle
    /\ last_result' = IF price = None THEN "start_failed" ELSE "started"
    /\ UNCHANGED <<mode, call, ledgerVars, bt>>

\* cmd_stop
CmdStop ==
    /\ mode = "live" /\ cmd = Idle
    /\ IF is_live_trading
       THEN BeginStop("stop")
       ELSE /\ last_result' = "not_running"
            /\ UNCHANGED <<is_live_trading, stop_seen, cmd>>
    /\ UNCHANGED <<mode, call, current_price, gridVars, ledgerVars, threads, bt, resumed>>

\* stop_live_trading from "Close all open positions" on (of cmd_stop or
\* cmd_restart).  An exception leaves stop_live_trading and is caught by the
\* command; cmd_restart then skips its start.
StopClose(price, u) ==
    /\ cmd.pc = "stop_close"
    /\ LET r == stop_close_positions(Ledger, price, u)
       IN  /\ SetLedger(IF r.ret = "ok" THEN notify(r.L) ELSE r.L)
           /\ cmd' = IF cmd.op = "restart" /\ r.ret = "ok"
                     THEN [op |-> "restart", pc |-> "sleep"]
                     ELSE Idle
           /\ last_result' = IF r.ret = "ok" THEN "stopped" ELSE "stop_raised"
    /\ UNCHANGED <<mode, call, is_live_trading, current_price, gridVars, threads, bt,
                   stop_seen, resumed>>

\* cmd_restart: stop_live_trading when running, else start_live_trading at once
CmdRestart ==
    /\ mode = "live" /\ cmd = Idle /\ Cardinality(FreeSlots) >= 1
    /\ IF is_live_trading
       THEN BeginStop("restart")
       ELSE BeginStart("restart") /\ UNCHANGED stop_seen
    /\ UNCHANGED <<mode, call, current_price, gridVars, ledgerVars, threads, bt, resumed>>

\* cmd_restart after time.sleep(2): start_live_trading
RestartStart ==
    /\ cmd = [op |-> "restart", pc |-> "sleep"]
    /\ BeginStart("restart")
    /\ UNCHANGED <<mode, call, current_price, gridVars, ledgerVars, threads, bt,
                   stop_seen, resumed>>

\* cmd_reset_stats: the four assignments; nothing else of the bot is assigned.
ResetStats ==
    /\ trades' = <<>>
    /\ total_fees' = 0
    /\ liquidated_positions' = 0
    /\ start_balance' = current_balance
    /\ UNCHANGED <<is_live_trading, current_price, gridVars, positions,
                   funding_fees, current_balance, next_uid, perfVars, threads>>

\* cmd_reset_stats as a command of the channel
CmdResetStats ==
    /\ mode = "live" /\ cmd = Idle
    /\ ResetStats
    /\ last_result' = "reset"
    /\ UNCHANGED <<mode, call, cmd, bt, stop_seen, resumed>>

\* self.authorized_users: the one chat id of the configuration
authorized_users == {"owner"}

\* Chat ids a message can come from
ChatIds == {"owner", "stranger"}

\* Command texts of the messages followed through handle_telegram_message
Texts == {"/stop", "/reset_stats"}

\* run_telegram_polling hands a message of a chat that is not authorized to
\* handle_telegram_message.  (The commands of the authorized chat are the
\* actions above.)
MessageArrives(chat_id, text) ==
    /\ mode = "live" /\ cmd = Idle
    /\ chat_id \notin authorized_users
    /\ cmd' = [op |-> text, pc |-> "unauthorized"]
    /\ UNCHANGED <<mode, call, is_live_trading, current_price, gridVars, ledgerVars,
                   threads, bt, histVars>>

\* handle_telegram_message without the authorization test: the command of the
\* message is processed.
HandleUnauthorized_processes ==
    /\ cmd.pc = "unauthorized"
    /\ IF cmd.op = "/stop"
       THEN /\ is_live_trading' = FALSE
            /\ UNCHANGED <<current_price, gridVars, ledgerVars, threads>>
       ELSE ResetStats
    /\ cmd' = Idle
    /\ last_result' = "unauthorized"
    /\ UNCHANGED <<mode, call, bt, stop_seen, resumed>>

\* handle_telegram_message on a message of a chat that is not authorized
\* (lines 274-276): the notice is sent and the handler returns.
HandleUnauthorized ==
    /\ cmd.pc = "unauthorized"
    /\ SetLedger(notify(Ledger))
    /\ cmd' = Idle
    /\ last_result' = "unauthorized"
    /\ UNCHANGED <<mode, call, is_live_trading, current_price, gridVars, threads, bt,
                   stop_seen, resumed>>

\* ------------------------------------------------------- live loop thread
\* The while test of live_trading_loop, on entry and after each time.sleep.
LoopTest(t) ==
    /\ threads[t].pc = "wait"
    /\ threads' = [threads EXCEPT ![t] = [NoThread EXCEPT
                       !.pc = IF is_live_trading THEN "cycle" ELSE "done",
                       !.last_price = threads[t].last_price]]
    /\ resumed' = [resumed EXCEPT ![t] = @ \/ (is_live_trading /\ stop_seen[t])]
    /\ UNCHANGED <<mode, call, is_live_trading, current_price, gridVars, ledgerVars, cmd,
                   bt, stop_seen, last_result>>

\* The loop body with the failed-fetch branch dropping the previous price
\* (last_price reset to None before the continue).
LoopCycle_forgets_last_price(t, price, u) ==
    /\ threads[t].pc = "cycle"
    /\ LET r == check_grid_cross(Ledger, grid_prices, threads[t].last_price, price, u)
       IN  IF price = None
           THEN /\ threads' = [threads EXCEPT ![t].pc = "wait",
                                               ![t].ret = "fetch_failed",
                                               ![t].last_price = None]
                /\ UNCHANGED <<current_price, ledgerVars>>
           ELSE /\ current_price' = price
                /\ SetLedger(r.L)
                /\ threads' = [threads EXCEPT
                       ![t] = [pc |-> "wait",
                               last_price |-> IF r.ret \in {"none", "traded"}
                                              THEN price ELSE @.last_price,
                               ret |-> r.ret,
                               prev |-> IF @.last_price = None THEN "first"
                                        ELSE IF @.last_price = price THEN "same"
                                        ELSE "moved"]]
    /\ UNCHANGED <<mode, call, is_live_trading, gridVars, cmd, bt, histVars>>

\* One pass of the loop body, up to its time.sleep: the price fetch, then the
\* grid cross check.  An exception is caught by the loop's handler, which
\* sleeps too; last_price is then not updated.
LoopCycle(t, price, u) ==
    /\ threads[t].pc = "cycle"
    /\ LET r == check_grid_cross(Ledger, grid_prices, threads[t].last_price, price, u)
       IN  IF price = None
           THEN /\ threads' = [threads EXCEPT ![t].pc = "wait",
                                               ![t].ret = "fetch_failed"]
                /\ UNCHANGED <<current_price, ledgerVars>>
           ELSE /\ current_price' = price
                /\ SetLedger(r.L)
                /\ threads' = [threads EXCEPT
                       ![t] = [pc |-> "wait",
                               last_price |-> IF r.ret \in {"none", "traded"}
                                              THEN price ELSE @.last_price,
                               ret |-> r.ret,
                               prev |-> IF @.last_price = None THEN "first"
                                        ELSE IF @.last_price = price THEN "same"
                                        ELSE "moved"]]
    /\ UNCHANGED <<mode, call, is_live_trading, gridVars, cmd, bt, histVars>>

\* ---------------------------------------------------------------- backtest
\* run_backtest up to the for loop: load_data and the grid.  n rows, the
\* last of which closes at last; volatility_pm from the closes.
BacktestStart(n, last, volatility_pm) ==
    /\ mode = "backtest" /\ bt.pc = "ready"
    /\ LET bounds == auto_set_grid_range(last, volatility_pm)
       IN  /\ grid_lower_price' = bounds.lower
           /\ grid_upper_price' = bounds.upper
           /\ grid_prices' = calculate_grid_prices(bounds.lower, bounds.upper)
    /\ bt' = [pc |-> "loop", i |-> 0, n |-> n, last |-> last, price |-> None,
              timed_out |-> FALSE]
    /\ UNCHANGED <<mode, call, is_live_trading, current_price, ledgerVars, threads, cmd,
                   histVars>>

\* The for loop without the break of the time limit test: the limit is
\* noticed and logged, and the row is processed all the same.
BacktestBar_no_break(close, timeout, u) ==
    /\ bt.pc = "loop" /\ bt.i < bt.n
    /\ LET price == IF bt.i = bt.n - 1 THEN bt.last ELSE close
           r == backtest_bar(Ledger, grid_prices, bt.i, price, u)
       IN  /\ SetLedger(r.L)
           /\ bt' = [bt EXCEPT !.price = price,
                               !.i = @ + 1,
                               !.timed_out = @ \/ timeout,
                               !.pc = IF r.ret # "ok" THEN "raised"
                                      ELSE IF bt.i + 1 = bt.n THEN "closing"
                                      ELSE "loop"]
    /\ UNCHANGED <<mode, call, is_live_trading, current_price, gridVars, threads, cmd,
                   histVars>>

\* One row of the for loop: the time limit test, then the body.
BacktestBar(close, timeout, u) ==
    /\ bt.pc = "loop" /\ bt.i < bt.n
    /\ LET price == IF bt.i = bt.n - 1 THEN bt.last ELSE close
           r == backtest_bar(Ledger, grid_prices, bt.i, price, u)
       IN  IF timeout
           THEN /\ bt' = [bt EXCEPT !.pc = "closing", !.timed_out = TRUE]
                /\ UNCHANGED ledgerVars
           ELSE /\ SetLedger(r.L)
                /\ bt' = [bt EXCEPT !.price = price,
                                    !.i = @ + 1,
                                    !.pc = IF r.ret # "ok" THEN "raised"
                                           ELSE IF bt.i + 1 = bt.n THEN "closing"
                                           ELSE "loop"]
    /\ UNCHANGED <<mode, call, is_live_trading, current_price, gridVars, threads, cmd,
                   histVars>>

\* run_backtest after the for loop: "Close remaining positions" and the report.
BacktestFinish(u) ==
    /\ bt.pc = "closing"
    /\ LET r == close_remaining([L |-> Ledger, ret |-> "ok"], 1, bt.price, u)
       IN  /\ SetLedger(IF r.ret = "ok" THEN notify(r.L) ELSE r.L)
           /\ bt' = [bt EXCEPT !.pc = IF r.ret = "ok" THEN "returned" ELSE "raised"]
    /\ UNCHANGED <<mode, call, is_live_trading, current_price, gridVars, threads, cmd,
                   histVars>>

OptPrices == Prices \cup {None}

Next ==
    \/ CmdStart
    \/ \E price \in OptPrices, price2 \in OptPrices,
          volatility_pm \in Volatilities \cup {None} :
            StartFetch(price, price2, volatility_pm)
    \/ CmdStop
    \/ \E price \in OptPrices, u \in Uniform : StopClose(price, u)
    \/ CmdRestart
    \/ RestartStart
    \/ CmdResetStats
    \/ \E chat_id \in ChatIds, text \in Texts : MessageArrives(chat_id, text)
    \/ HandleUnauthorized
    \/ \E t \in Threads : LoopTest(t)
    \/ \E t \in Threads, price \in OptPrices, u \in Uniform : LoopCycle(t, price, u)
    \/ \E n \in 1..MaxBars, last \in Prices, volatility_pm \in Volatilities :
            BacktestStart(n, last, volatility_pm)
    \/ \E close \in Prices, timeout \in BOOLEAN, u \in Uniform :
            BacktestBar(close, timeout, u)
    \/ \E u \in Uniform : BacktestFinish(u)

Spec == Init /\ [][Next]_vars

\* run_backtest is one sequential pass of the thread that called it: whenever
\* it has a next step, it takes it.
BacktestStep ==
    \/ \E n \in 1..MaxBars, last \in Prices, volatility_pm \in Volatilities :
            BacktestStart(n, last, volatility_pm)
    \/ \E close \in Prices, timeout \in BOOLEAN, u \in Uniform :
            BacktestBar(close, timeout, u)
    \/ \E u \in Uniform : BacktestFinish(u)

FairSpec == Spec /\ WF_vars(BacktestStep)

\* ----------------------------------------------- the methods, called directly
\* PionexFuturesGridBot is a class whose methods are all public.  UnitSpec is
\* a bot whose ledger and configuration a caller has set up and on which the
\* caller invokes single methods; call records the last invocation.

\* The dict execute_trade builds for a position (lines 1014-1024), without the
\* trailing stop entries.
position_record(id, side, entry_price, size, lev) ==
    [uid |-> id, id |-> id, side |-> side, entry_price |-> entry_price,
     size |-> size, leverage |-> lev,
     buy_fee |-> (size * entry_price * fee_rate_e4) \div 10000]

\* Sides a caller can pass to execute_trade: the decision loops pass "buy";
\* close_position and the risk checks distinguish "long" from everything else.
UnitSides == {"buy", "long", "short"}

\* Entry price, size (in 1/SizeUnit) and leverage of the positions a ledger is
\* set up with.
UnitEntries == {<<100, 100 * SizeUnit, 2>>, <<10000, SizeUnit, 1>>}

UnitPositions(id) ==
    {position_record(id, side, e[1], e[2], e[3]) : side \in UnitSides, e \in UnitEntries}

UnitOpenSets ==
    {<<>>} \cup {<<p>> : p \in UnitPositions(1)}
           \cup {<<p, q>> : p \in UnitPositions(1), q \in UnitPositions(2)}

\* Configured grid bounds: "auto" (None) or the numbers 90 and 110.
UnitGridConfigs == {<<None, None>>, <<90, 110>>}

UnitInit ==
    /\ mode = "unit"
    /\ is_live_trading = FALSE
    /\ current_price = None
    /\ grid_prices = <<>>
    /\ \E c \in UnitGridConfigs : grid_lower_price = c[1] /\ grid_upper_price = c[2]
    /\ positions \in UnitOpenSets
    /\ trades = <<>>
    /\ total_fees = 0
    /\ funding_fees = 0
    /\ current_balance = initial_balance * SizeUnit
    /\ start_balance = initial_balance * SizeUnit
    /\ max_balance = start_balance
    /\ min_balance = start_balance
    /\ max_drawdown = 0
    /\ liquidated_positions = 0
    /\ threads = [t \in Threads |-> NoThread]
    /\ cmd = Idle
    /\ bt = [pc |-> "ready", i |-> 0, n |-> 0, last |-> None, price |-> None,
             timed_out |-> FALSE]
    /\ next_uid = Len(positions) + 1
    /\ stop_seen = [t \in Threads |-> FALSE]
    /\ resumed = [t \in Threads |-> FALSE]
    /\ last_result = "none"
    /\ call = [fn |-> "none", n |-> 0]

\* What no direct call of a method touches.
UnitFrame == UNCHANGED <<mode, threads, cmd, bt, histVars>>

\* The calls that compute a result and leave the ledger alone; a run of the
\* method-level specification ends with the first of them.
Queries == {"calculate_grid_prices", "calculate_adaptive_grid_prices",
            "calculate_position_size", "calculate_liquidation_price",
            "check_liquidation", "check_liquidation_risk",
            "advanced_risk_management", "calculate_dynamic_leverage",
            "detect_trend"}

\* An open or a close ends a run as well.
LastCalls == Queries \cup {"execute_trade", "close_position"}

UnitReady == mode = "unit" /\ call.n < MaxCalls /\ call.fn \notin LastCalls

\* bot.apply_funding_fees(timestamp)
UnitApplyFunding ==
    /\ UnitReady
    /\ SetLedger(apply_funding_fees(Ledger))
    /\ call' = [fn |-> "apply_funding_fees", n |-> call.n + 1]
    /\ UNCHANGED <<is_live_trading, current_price, gridVars>>
    /\ UnitFrame

\* bot.cmd_reset_stats(chat_id)
UnitResetStats ==
    /\ UnitReady
    /\ ResetStats
    /\ call' = [fn |-> "cmd_reset_stats", n |-> call.n + 1]
    /\ UnitFrame

\* config['grid_count'] of the bot a grid method is called on
UnitGridCounts == {1, 2, 3, 5}

\* Volatility arguments, per mille: below 0.01, between, above 0.05 (0.09 makes
\* the dynamic buffer of the default configuration exactly 1.0)
UnitVolatilities == {2, 30, 90, 100}

\* Price arguments: the centre auto_set_grid_range finds, and prices off it
UnitPrices == Prices \cup {FallbackPrice, 2000}

\* bot.calculate_grid_prices(); price2 and volatility_pm are what
\* auto_set_grid_range reads (last close or ticker, and the spread of closes).
UnitCalculateGridPrices ==
    /\ UnitReady
    /\ \E count \in UnitGridCounts, price2 \in OptPrices,
          volatility_pm \in Volatilities \cup {None} :
          LET bounds == auto_set_grid_range(price2, volatility_pm)
          IN  /\ grid_lower_price' = bounds.lower
              /\ grid_upper_price' = bounds.upper
              /\ call' = [fn |-> "calculate_grid_prices", n |-> call.n + 1,
                          grid_count |-> count,
                          result |-> grid_prices_for(bounds.lower, bounds.upper, count)]
    /\ UNCHANGED <<is_live_trading, current_price, grid_prices, ledgerVars>>
    /\ UnitFrame

\* bot.calculate_adaptive_grid_prices(price, volatility)
UnitCalculateAdaptiveGridPrices ==
    /\ UnitReady
    /\ \E count \in UnitGridCounts, price2 \in OptPrices, price \in UnitPrices,
          volatility2_pm \in Volatilities \cup {None},
          volatility_pm \in UnitVolatilities :
          LET bounds == auto_set_grid_range(price2, volatility2_pm)
          IN  /\ grid_lower_price' = bounds.lower
              /\ grid_upper_price' = bounds.upper
              /\ call' = [fn |-> "calculate_adaptive_grid_prices", n |-> call.n + 1,
                          grid_count |-> count, price |-> price,
                          volatility_pm |-> volatility_pm,
                          result |-> calculate_adaptive_grid_prices(
                                         bounds.lower, bounds.upper, count,
                                         price, volatility_pm)]
    /\ UNCHANGED <<is_live_trading, current_price, grid_prices, ledgerVars>>
    /\ UnitFrame

\* A query leaves everything of the bot as it is.
UnitQuery ==
    /\ UNCHANGED <<is_live_trading, current_price, gridVars, ledgerVars>>
    /\ UnitFrame

\* bot.calculate_position_size(price): the division by price (line 950)
UnitCalculatePositionSize ==
    /\ UnitReady
    /\ \E price \in Prices \cup {0} :
          call' = [fn |-> "calculate_position_size", n |-> call.n + 1,
                   price |-> price,
                   result |-> IF price = 0 THEN Raises("ZeroDivisionError")
                              ELSE Returns(calculate_position_size(price))]
    /\ UnitQuery

\* Leverages calculate_liquidation_price is called with
UnitLeverages == {0, 1, 2, 4}

\* bot.calculate_liquidation_price(entry_price, position_size, is_long, leverage)
UnitCalculateLiquidationPrice ==
    /\ UnitReady
    /\ \E e \in UnitEntries, is_long \in BOOLEAN, lev \in UnitLeverages :
          call' = [fn |-> "calculate_liquidation_price", n |-> call.n + 1,
                   entry_price |-> e[1], is_long |-> is_long, leverage |-> lev,
                   result |-> calculate_liquidation_price(e[1], e[2], is_long, lev)]
    /\ UnitQuery

\* Distances of the price argument from the position's entry price
UnitMoves == (-2)..2

\* bot.check_liquidation(price, position) on a position of the ledger
UnitCheckLiquidation ==
    /\ UnitReady
    /\ \E i \in 1..Len(positions), d \in UnitMoves :
          LET position == positions[i]
              price == position.entry_price + d
          IN  call' = [fn |-> "check_liquidation", n |-> call.n + 1,
                       position |-> position, price |-> price,
                       result |-> check_liquidation(price, position)]
    /\ UnitQuery

\* The positions a risk check is called on: those of the ledger, and a dict
\* with size 0.
UnitRiskPositions ==
    {positions[i] : i \in 1..Len(positions)} \cup {position_record(0, "long", 100, 0, 2)}

\* config['liquidation_buffer'] per mille: the default, and 1.0
UnitBuffers == {liquidation_buffer_pm, 1000}

\* config['stop_loss_pct'] and config['take_profit_pct'] per mille: the
\* defaults, and pairs with the stop loss below and above the take profit.
UnitLimits == {<<stop_loss_pct_pm, take_profit_pct_pm>>, <<1000, 2000>>, <<2000, 1000>>}

UnitRiskConfigs ==
    {[risk_management_enabled |-> e, liquidation_buffer_pm |-> b,
      stop_loss_pm |-> l[1], take_profit_pm |-> l[2]] :
        e \in BOOLEAN, b \in UnitBuffers, l \in UnitLimits}

\* bot.check_liquidation_risk(position, price)
UnitCheckLiquidationRisk ==
    /\ UnitReady
    /\ \E position \in UnitRiskPositions, d \in UnitMoves, buffer_pm \in UnitBuffers :
          LET price == position.entry_price + d
          IN  call' = [fn |-> "check_liquidation_risk", n |-> call.n + 1,
                       position |-> position, price |-> price,
                       liquidation_buffer_pm |-> buffer_pm,
                       result |-> check_liquidation_risk_with(position, price, buffer_pm)]
    /\ UnitQuery

\* bot.advanced_risk_management(position, price, volatility)
UnitAdvancedRiskManagement ==
    /\ UnitReady
    /\ \E position \in UnitRiskPositions, d \in UnitMoves,
          volatility_pm \in UnitVolatilities, cfg \in UnitRiskConfigs :
          LET price == position.entry_price + d
          IN  call' = [fn |-> "advanced_risk_management", n |-> call.n + 1,
                       position |-> position, price |-> price,
                       volatility_pm |-> volatility_pm, cfg |-> cfg,
                       result |-> advanced_risk_management(position, price,
                                                           volatility_pm, cfg)]
    /\ UnitQuery

\* config['leverage'] of the bot calculate_dynamic_leverage is called on
UnitBaseLeverages == {1, leverage, 10}

Trends == {"bullish", "bearish", "neutral"}

\* Balance arguments, in whole currency units
UnitBalances == {-200000, 0, initial_balance, 100000}

\* bot.calculate_dynamic_leverage(volatility, trend, balance)
UnitCalculateDynamicLeverage ==
    /\ UnitReady
    /\ \E base_leverage \in UnitBaseLeverages, volatility_pm \in UnitVolatilities,
          trend \in Trends, balance \in UnitBalances :
          call' = [fn |-> "calculate_dynamic_leverage", n |-> call.n + 1,
                   leverage |-> base_leverage, volatility_pm |-> volatility_pm,
                   trend |-> trend, balance |-> balance,
                   result |-> Returns(calculate_dynamic_leverage(
                                          base_leverage, volatility_pm, trend, balance))]
    /\ UnitQuery

\* Rows of the data frame detect_trend looks at: rsi, adx (percent) and the
\* bands may be NaN, macd is above the signal line or not, and close lies at
\* 0.2, 0.3, 0.5, 0.7 or 0.8 of the band.
UnitRows ==
    [rsi : {None, 40, 50, 60}, macd : {1, 3}, macd_signal : {2},
     adx : {None, 40, 60, 70}, close : {120, 130, 150, 170, 180},
     bb_lower : {100}, bb_upper : {200}]
    \cup
    [rsi : {40, 60}, macd : {1, 3}, macd_signal : {2},
     adx : {40, 70}, close : {150},
     bb_lower : {None}, bb_upper : {None, 200}]

\* bot.detect_trend(data, index)
UnitDetectTrend ==
    /\ UnitReady
    /\ \E index \in {MinIndex - 1, MinIndex}, row \in UnitRows :
          call' = [fn |-> "detect_trend", n |-> call.n + 1,
                   index |-> index, row |-> row,
                   result |-> Returns(detect_trend(index, row))]
    /\ UnitQuery

\* bot.update_performance_metrics(): no code of the repository calls it, so
\* it is a step of the method-level specification only.
UnitUpdatePerformanceMetrics ==
    /\ UnitReady
    /\ max_balance' = Max(max_balance, current_balance)
    /\ min_balance' = Min(min_balance, current_balance)
    /\ max_drawdown' =
          IF max_balance' > 0
          THEN Max(max_drawdown,
                   ((max_balance' - current_balance) * DrawdownUnit) \div max_balance')
          ELSE max_drawdown
    /\ call' = [fn |-> "update_performance_metrics", n |-> call.n + 1]
    /\ UNCHANGED <<is_live_trading, current_price, gridVars, positions, trades,
                   total_fees, funding_fees, current_balance, start_balance,
                   liquidated_positions, next_uid>>
    /\ UnitFrame

\* bot.execute_trade(price, side, timestamp); fill is what its call of
\* simulate_order_execution (line 1009) returns.
UnitExecuteTrade ==
    /\ UnitReady
    /\ \E price \in Prices, side \in UnitSides, u \in Uniform :
          LET r == execute_trade(Ledger, price, side, u)
          IN  /\ SetLedger(r.L)
              /\ call' = [fn |-> "execute_trade", n |-> call.n + 1,
                          price |-> price, side |-> side,
                          fill |-> simulate_order_execution(price, side = "buy", u),
                          result |-> IF r.ret \in {"True", "False"}
                                     THEN Returns(r.ret) ELSE Raises(r.ret)]
    /\ UNCHANGED <<is_live_trading, current_price, gridVars>>
    /\ UnitFrame

\* bot.close_position(position, price, timestamp) on a position of the
\* ledger; fill is what its call of simulate_order_execution (line 1073)
\* returns.
UnitClosePosition ==
    /\ UnitReady
    /\ \E i \in 1..Len(positions), price \in Prices, u \in Uniform :
          LET position == positions[i]
              r == close_position(Ledger, position, price, u)
          IN  /\ SetLedger(r.L)
              /\ call' = [fn |-> "close_position", n |-> call.n + 1,
                          price |-> price, position |-> position,
                          fill |-> simulate_order_execution(
                                       price, position.side = "sell", u),
                          result |-> IF r.ret \in {"0", "pnl"}
                                     THEN Returns(r.ret) ELSE Raises(r.ret)]
    /\ UNCHANGED <<is_live_trading, current_price, gridVars>>
    /\ UnitFrame

UnitNext ==
    \/ UnitApplyFunding
    \/ UnitResetStats
    \/ UnitCalculateGridPrices
    \/ UnitCalculateAdaptiveGridPrices
    \/ UnitCalculatePositionSize
    \/ UnitCalculateLiquidationPrice
    \/ UnitCheckLiquidation
    \/ UnitCheckLiquidationRisk
    \/ UnitAdvancedRiskManagement
    \/ UnitCalculateDynamicLeverage
    \/ UnitDetectTrend
    \/ UnitExecuteTrade
    \/ UnitUpdatePerformanceMetrics
    \/ UnitClosePosition

UnitSpec == UnitInit /\ [][UnitNext]_vars

\* ------------------------------------------------------------------ claims
\* The open set and the trade history are empty in every reachable state:
\* every execute_trade call that gets past the size test raises
\* AttributeError before self.positions.append, in the backtest and in the
\* live loop alike, so close_position is never called.
LedgerNeverPopulated ==
    /\ positions = <<>> /\ trades = <<>>
    /\ total_fees = 0 /\ funding_fees = 0
    /\ current_balance = initial_balance * SizeUnit

\* C8: after a stop command the loop thread that was running observes the
\* cancellation at its next while test and terminates; it never passes that
\* test again (it never resumes trading).
C8_StoppedLoopNeverResumes == \A t \in Threads : ~resumed[t]

\* C9: a start whose price fetch fails leaves is_live_trading false and starts
\* no loop thread, and no step of a start up to and including the failed fetch
\* changes grid levels, positions, trades or balance.
C9_FailedStartChangesNothing ==
    [][/\ (cmd.pc = "start_fetch" /\ cmd' = Idle /\ last_result' = "start_failed")
          => /\ is_live_trading' = FALSE
             /\ threads' = threads
             /\ UNCHANGED <<grid_prices, positions, trades, current_balance>>
       /\ (cmd.pc # "start_fetch" /\ cmd'.pc = "start_fetch")
          => UNCHANGED <<threads, grid_prices, positions, trades, current_balance>>
      ]_vars

\* A start has just failed on its price fetch in a session that had been
\* running before: grid levels exist and a loop thread of the earlier run is
\* still there.
C9_Witness ==
    /\ last_result = "start_failed" /\ cmd = Idle
    /\ grid_prices # <<>>
    /\ \E t \in Threads : threads[t].pc # "none"

\* The step of thread t that is one pass of the loop body with a fetched price.
CycleWithPrice(t) ==
    /\ threads[t].pc = "cycle" /\ threads'[t].pc = "wait"
    /\ threads'[t].ret # "fetch_failed"

\* C12: a live cycle whose fetched price equals the previous cycle's price,
\* and the first cycle of a loop (no previous price yet), opens and closes
\* nothing: no grid level acts (the cross check ends without calling
\* execute_trade or close_position) and positions, trades, balance and fees
\* are as before.
C12_StationaryCycleDoesNothing ==
    [][\A t \in Threads :
         (/\ CycleWithPrice(t)
          /\ \/ threads[t].last_price = None
             \/ threads[t].last_price = current_price')
         => /\ threads'[t].ret = "none"
            /\ UNCHANGED <<positions, trades, current_balance, total_fees, funding_fees>>
      ]_vars

\* Two loop threads have each just finished a pass over a non-empty grid: one
\* its first pass, the other a pass whose price equalled the one before.
C12_Witness ==
    /\ grid_prices # <<>>
    /\ \E t1, t2 \in Threads :
         /\ threads[t1].pc = "wait" /\ threads[t1].prev = "first"
         /\ threads[t2].pc = "wait" /\ threads[t2].prev = "same"
         /\ threads[t2].last_price = current_price

\* C14: a failed price fetch in a live cycle changes no ledger state
\* (positions, trades, balance, fee accumulators) and not the previous price;
\* the loop thread stays alive, the session stays Running and the thread goes
\* on to its next while test.  A notification send changes no ledger state
\* and returns normally whatever the response, a failure included, so it
\* aborts nothing.
C14_FailedFetchAndFailedSendAreHarmless ==
    /\ [](\A response \in Responses :
            send_telegram_message(Ledger, response) = [ret |-> "None", L |-> Ledger])
    /\ [][\A t \in Threads :
            (threads[t].pc = "cycle" /\ threads'[t].ret = "fetch_failed")
            => /\ UNCHANGED <<positions, trades, current_balance, total_fees,
                              funding_fees, liquidated_positions>>
               /\ threads'[t].last_price = threads[t].last_price
               /\ threads'[t].pc = "wait"
               /\ UNCHANGED is_live_trading
         ]_vars

\* A loop thread that remembers a previous price has just had a price fetch
\* fail, in a running session.
C14_Witness ==
    /\ is_live_trading
    /\ \E t \in Threads :
         /\ threads[t].pc = "wait" /\ threads[t].ret = "fetch_failed"
         /\ threads[t].last_price # None

\* C18: run_backtest comes to an end on every bar sequence (it returns its
\* report, or the exception of an open leaves it); the step that finds the
\* wall-clock budget exceeded processes no bar, no bar is processed after it,
\* and the run then goes through the end-of-run close and returns its report,
\* with the trades, fees and liquidation count accumulated so far.
C18_BacktestEndsAndHonoursBudget ==
    /\ [](mode = "backtest" => <>(bt.pc \in {"returned", "raised"}))
    /\ [](bt.timed_out => <>(bt.pc = "returned"))
    /\ [][/\ (bt'.timed_out /\ ~bt.timed_out)
               => (bt'.i = bt.i /\ UNCHANGED ledgerVars)
          /\ bt.timed_out
               => /\ bt'.i = bt.i /\ bt'.timed_out
                  /\ bt'.pc \in {"closing", "returned"}
                  /\ SubSeq(trades', 1, Len(trades)) = trades
                  /\ UNCHANGED <<funding_fees, liquidated_positions>>
          ]_vars

\* A backtest has returned its report after the time limit cut it short:
\* some rows were processed, some never were.
C18_Witness ==
    /\ bt.pc = "returned" /\ bt.timed_out
    /\ 0 < bt.i /\ bt.i < bt.n

\* C19: execute_trade, called as the decision loops call it (a grid level as
\* price, side "buy") on the current ledger, returns failure and changes
\* nothing when the computed size is <= 0 or the simulated fill is None;
\* otherwise it returns success, appends exactly one position and adds the buy
\* fee size x fill x fee_rate to total_fees, leaving balance and trades as
\* they were.
C19_OpenContract ==
    \A k \in DOMAIN grid_prices, u \in Uniform :
        LET price == grid_prices[k]
            size == calculate_position_size(price)
            fill == simulate_order_execution(price, TRUE, u)
            buy_fee == (size * fill * fee_rate_e4) \div 10000
            r == execute_trade(Ledger, price, "buy", u)
        IN  IF size <= 0 \/ fill = None
            THEN r.ret = "False" /\ r.L = Ledger
            ELSE /\ r.ret = "True"
                 /\ Len(r.L.positions) = Len(positions) + 1
                 /\ r.L.total_fees = total_fees + buy_fee
                 /\ r.L.current_balance = current_balance
                 /\ r.L.trades = trades

\* C21: apply_funding_fees with at least one open position takes the fee
\* (sum over the open positions of size x entry_price) x funding_rate, once
\* from the balance, and adds it to funding_fees and to total_fees; a position
\* value of 10000 at rate 0.0001 costs 1.0.  With no open position it changes
\* nothing.  Positions and trades are unchanged in both cases.
C21_FundingFee ==
    [][call'.fn = "apply_funding_fees" /\ call'.n = call.n + 1
       => LET fee == (SumValue(positions) * funding_rate_e4) \div 10000
          IN  /\ UNCHANGED <<positions, trades>>
              /\ IF Len(positions) > 0
                 THEN /\ current_balance' = current_balance - fee
                      /\ funding_fees' = funding_fees + fee
                      /\ total_fees' = total_fees + fee
                      /\ (SumValue(positions) = 10000 * SizeUnit => fee = SizeUnit)
                 ELSE UNCHANGED <<current_balance, funding_fees, total_fees>>
      ]_vars

\* Funding has been applied twice to a ledger with one open position worth
\* 10000: 1.0 was charged each time.
C21_Witness ==
    /\ call.fn = "apply_funding_fees" /\ call.n = 2
    /\ Len(positions) = 1 /\ SumValue(positions) = 10000 * SizeUnit
    /\ funding_fees = 2 * SizeUnit /\ total_fees = 2 * SizeUnit
    /\ current_balance = (initial_balance - 2) * SizeUnit

StrictlyIncreasing(levels) ==
    \A i \in 1..(Len(levels) - 1) : levels[i] < levels[i + 1]

\* C23: for a configuration with numeric bounds lower < upper and
\* grid_count >= 2, calculate_grid_prices and calculate_adaptive_grid_prices
\* return strictly increasing levels whose number is the (volatility-adapted)
\* grid count and at least 2, and the bounds they used satisfy lower < upper.
C23_GridLevels ==
    [][/\ call'.n = call.n + 1
       /\ call'.fn \in {"calculate_grid_prices", "calculate_adaptive_grid_prices"}
       /\ grid_lower_price # None /\ grid_lower_price < grid_upper_price
       /\ call'.grid_count >= 2
       => /\ call'.result.raises = ""
          /\ StrictlyIncreasing(call'.result.value)
          /\ Len(call'.result.value) >= 2
          /\ Len(call'.result.value) =
                 IF call'.fn = "calculate_grid_prices" THEN call'.grid_count
                 ELSE adapted_grid_count(call'.grid_count, call'.volatility_pm)
          /\ grid_lower_price' < grid_upper_price'
      ]_vars

\* C24: with numeric grid_lower_price and grid_upper_price in the
\* configuration, calculate_grid_prices leaves the configured bounds as they
\* are and returns grid_count equally spaced levels from lower to upper
\* inclusive; 90, 110 and 5 give 90, 95, 100, 105, 110.
C24_StaticBoundsKept ==
    [][/\ call'.n = call.n + 1 /\ call'.fn = "calculate_grid_prices"
       /\ grid_lower_price # None /\ call'.grid_count >= 2
       => /\ UNCHANGED <<grid_lower_price, grid_upper_price>>
          /\ call'.result.raises = ""
          /\ LET levels == call'.result.value
             IN  /\ Len(levels) = call'.grid_count
                 /\ levels[1] = grid_lower_price
                 /\ levels[Len(levels)] = grid_upper_price
                 /\ \A i \in 2..(Len(levels) - 1) :
                        levels[i + 1] - levels[i] = levels[2] - levels[1]
                 /\ (grid_lower_price = 90 /\ grid_upper_price = 110
                        /\ call'.grid_count = 5
                     => levels = <<90, 95, 100, 105, 110>>)
      ]_vars

\* C29: the levels calculate_adaptive_grid_prices returns all lie within the
\* bounds [lower, upper] of the configuration, whatever the price and the
\* volatility it is called with.
C29_AdaptiveLevelsWithinBounds ==
    [][/\ call'.n = call.n + 1 /\ call'.fn = "calculate_adaptive_grid_prices"
       /\ call'.result.raises = ""
       => \A i \in 1..Len(call'.result.value) :
              /\ grid_lower_price' <= call'.result.value[i]
              /\ call'.result.value[i] <= grid_upper_price'
      ]_vars

RatioBelow(p, price, thr) ==
    LET pnl == IF p.side = "long"
               THEN (price - p.entry_price) * p.size * p.leverage
               ELSE (p.entry_price - price) * p.size * p.leverage
    IN  (p.size + pnl) * 1000 < thr * p.size

\* C27: on a long or short position the basic risk check returns liquidate
\* exactly when margin_ratio = (margin + pnl) / margin is strictly below
\* liquidation_buffer, with margin the position's size and pnl by the formula
\* of its side; a ratio equal to the buffer does not liquidate.
C27_BasicRiskCheck ==
    /\ call.fn = "check_liquidation_risk"
    /\ call.position.size > 0 /\ call.position.side \in {"long", "short"}
    => /\ call.result.raises = ""
       /\ call.result.value <=>
              RatioBelow(call.position, call.price, call.liquidation_buffer_pm)

\* The basic check was called on a long position at its entry price with a
\* buffer of 1.0: the ratio equals the buffer and the answer is no.
C27_Witness ==
    /\ call.fn = "check_liquidation_risk"
    /\ call.position.side = "long" /\ call.position.size > 0
    /\ call.price = call.position.entry_price
    /\ call.liquidation_buffer_pm = 1000
    /\ call.result = Returns(FALSE)

\* C28: with risk management enabled, advanced_risk_management on a long or
\* short position returns true exactly when margin_ratio < liquidation_buffer
\* + volatility x 10, or |pnl| / margin > stop_loss_pct, or pnl / margin >
\* take_profit_pct (margin = size); with risk management disabled it returns
\* what the basic check returns.
C28_AdvancedRiskManagement ==
    /\ call.fn = "advanced_risk_management"
    /\ call.position.size > 0 /\ call.position.side \in {"long", "short"}
    => LET p == call.position
           cfg == call.cfg
           margin == p.size
           pnl == IF p.side = "long"
                  THEN (call.price - p.entry_price) * p.size * p.leverage
                  ELSE (p.entry_price - call.price) * p.size * p.leverage
       IN  /\ call.result.raises = ""
           /\ IF cfg.risk_management_enabled
              THEN call.result.value <=>
                     \/ RatioBelow(p, call.price,
                                   cfg.liquidation_buffer_pm + call.volatility_pm * 10)
                     \/ Abs(pnl) * 1000 > cfg.stop_loss_pm * margin
                     \/ pnl * 1000 > cfg.take_profit_pm * margin
              ELSE call.result.value <=>
                     RatioBelow(p, call.price, cfg.liquidation_buffer_pm)

\* The advanced check, enabled, answered yes on a short position for the take
\* profit alone: the profit is twice the margin, the stop loss is 2.0, the take
\* profit 1.0, and the ratio 3.0 is not below the dynamic buffer.
C28_Witness ==
    /\ call.fn = "advanced_risk_management"
    /\ call.cfg.risk_management_enabled
    /\ call.cfg.stop_loss_pm = 2000 /\ call.cfg.take_profit_pm = 1000
    /\ call.position.side = "short" /\ call.position.size > 0
    /\ (call.position.entry_price - call.price) * call.position.leverage = 2
    /\ ~RatioBelow(call.position, call.price,
                   call.cfg.liquidation_buffer_pm + call.volatility_pm * 10)
    /\ call.result = Returns(TRUE)

\* C30: no formula lets a division by zero out: the grid spacing at a
\* (volatility-adapted) grid count of 1, the position size at price 0, the
\* liquidation price at leverage 0 and the margin ratio at margin 0 each give
\* a defined result or a rejected operation, never an exception.
C30_NoDivisionByZeroPropagates ==
    call.fn \in Queries => call.result.raises # "ZeroDivisionError"

\* C35: at most one live loop thread is active at any time, whatever the
\* sequence of start, stop and restart commands: never are two threads inside
\* the loop body, each having passed the while test.
C35_AtMostOneLoop ==
    Cardinality({t \in Threads : threads[t].pc = "cycle"}) <= 1

\* C38: a command message whose chat id is not in the authorized list changes
\* no state of the bot, whatever its text: it neither starts nor stops live
\* trading, resets no statistics and alters no positions, trades, balance or
\* fees.
C38_UnauthorizedChangesNothing ==
    [][cmd.pc = "unauthorized" /\ cmd' = Idle
       => UNCHANGED <<is_live_trading, current_price, gridVars, ledgerVars, threads>>
      ]_vars

\* A message of an unauthorized chat has been handled while live trading was
\* running with a loop thread; trading is still running.
C38_Witness ==
    /\ last_result = "unauthorized" /\ cmd = Idle
    /\ is_live_trading
    /\ \E t \in Threads : Alive(t)

C33_DynamicLeverage ==
    call.fn = "calculate_dynamic_leverage"
    => LET vol == IF call.volatility_pm < 10 THEN 12
                  ELSE IF call.volatility_pm > 50 THEN 7 ELSE 10
           tr == IF call.trend = "bullish" THEN 11
                 ELSE IF call.trend = "bearish" THEN 9 ELSE 10
           bal == IF 1000 + call.balance \div 100 < 1500
                  THEN 1000 + call.balance \div 100 ELSE 1500
           product == call.leverage * vol * tr * bal
           value == call.result.value
       IN  /\ 1 * LevUnit <= value /\ value <= 3 * LevUnit
           /\ value = IF product < 1 * LevUnit THEN 1 * LevUnit
                      ELSE IF product > 3 * LevUnit THEN 3 * LevUnit
                      ELSE product

\* The dynamic leverage was asked for base leverage 1 at high volatility in a
\* bearish market with balance 0: 1 x 0.7 x 0.9 x 1.0 = 0.63 was raised to 1.0.
C33_Witness ==
    /\ call.fn = "calculate_dynamic_leverage"
    /\ call.leverage = 1 /\ call.volatility_pm > 50 /\ call.trend = "bearish"
    /\ call.balance = 0
    /\ call.result = Returns(1 * LevUnit)

\* The verdict the votes of a row give: bullish with two or more of RSI > 50,
\* MACD > signal and Bollinger position > 0.7; bearish with two or more of
\* their opposites (Bollinger position < 0.3); neutral otherwise.
Majority(row) ==
    LET up == {v \in {"rsi", "macd", "bb"} :
                  \/ v = "rsi" /\ row.rsi # None /\ row.rsi > 50
                  \/ v = "macd" /\ row.macd > row.macd_signal
                  \/ v = "bb" /\ row.bb_lower # None /\ row.bb_upper # None
                       /\ (row.close - row.bb_lower) * 10
                              > 7 * (row.bb_upper - row.bb_lower)}
        down == {v \in {"rsi", "macd", "bb"} :
                  \/ v = "rsi" /\ ~(row.rsi # None /\ row.rsi > 50)
                  \/ v = "macd" /\ ~(row.macd > row.macd_signal)
                  \/ v = "bb" /\ row.bb_lower # None /\ row.bb_upper # None
                       /\ (row.close - row.bb_lower) * 10
                              < 3 * (row.bb_upper - row.bb_lower)}
    IN  IF Cardinality(up) >= 2 THEN "bullish"
        ELSE IF Cardinality(down) >= 2 THEN "bearish"
        ELSE "neutral"

\* Trend strength of a row in percent: ADX, or 0.5 when ADX is NaN.
Strength(row) == IF row.adx = None THEN 50 ELSE row.adx

\* C34 as stated: detect_trend returns neutral whenever the trend strength
\* (ADX/100) is below the threshold, and otherwise what the majority of the
\* three votes says.
C34_TrendByMajority ==
    call.fn = "detect_trend"
    => call.result.value =
           IF Strength(call.row) < trend_strength_threshold_pct THEN "neutral"
           ELSE Majority(call.row)

\* C34 amended: from row 50 of the data on, detect_trend returns neutral
\* whenever the trend strength is below the threshold and otherwise what the
\* majority of the three votes says; on the first 50 rows it returns neutral.
C34_TrendByMajorityAfterWarmUp ==
    call.fn = "detect_trend"
    => call.result.value =
           IF call.index < MinIndex THEN "neutral"
           ELSE IF Strength(call.row) < trend_strength_threshold_pct THEN "neutral"
           ELSE Majority(call.row)

\* detect_trend was asked at row 50 with ADX 60, exactly the threshold, RSI
\* at 50 (a bearish vote), MACD above its signal and the close at 0.8 of the
\* band: the answer is bullish.
C34_Witness ==
    /\ call.fn = "detect_trend" /\ call.index = MinIndex
    /\ call.row.adx = trend_strength_threshold_pct
    /\ call.row.rsi = 50 /\ call.row.macd > call.row.macd_signal
    /\ call.row.bb_lower = 100 /\ call.row.bb_upper = 200 /\ call.row.close = 180
    /\ call.result = Returns("bullish")

\* C31: the execution simulator fills every buy strictly above the requested
\* price and every sell strictly below it; opening a long and closing a short
\* are filled as buys, closing a long and opening a short as sells.
C31_FillDirections ==
    /\ call.fn = "execute_trade"
       => IF call.side = "short" THEN call.fill < call.price
          ELSE call.fill > call.price
    /\ call.fn = "close_position"
       => IF call.position.side = "short" THEN call.fill > call.price
          ELSE call.fill < call.price

====
